---- MODULE Spec2Model ----
(***************************************************************************)
(* A model of generate_charging_report.py: the one-hour pickle cache, the  *)
(* two retrievals, the price matcher, the CSV export and the filtered      *)
(* report path.                                                            *)
(*                                                                         *)
(* Numbers.  Python floats are modelled as exact fixed-point integers:     *)
(*   energy      in 1/1000 kWh,                                            *)
(*   unit price  in 1/1000 EUR per kWh,                                    *)
(*   an effective price (a mean of unit prices) in 1/(1000*MeanDen) EUR,   *)
(*   a cost (energy * effective price) in 1/(1000000*MeanDen) EUR,         *)
(* where MeanDen is divisible by every possible number of averaged rows,   *)
(* so that the mean is exact.  Wall-clock time is in minutes; session and  *)
(* price-interval timestamps are in half hours counted from 09:00.         *)
(***************************************************************************)
EXTENDS Integers, Sequences, FiniteSets, TLC

VARIABLES
    now,          \* datetime.now(), minutes
    cache,        \* the file cache.pkl
    pc,           \* position of the current run inside main()
    wallbox_data, \* main's local: the sessions DataFrame, or None
    tibber_df,    \* main's local: the price DataFrame, or None
    address,      \* main's local
    owner,        \* main's local
    tibber_address, \* main's local
    tibber_owner, \* main's local
    csv,          \* updated_wallbox_with_tibber_prices.csv written by this run
    reports,      \* what this run handed to the Excel and PDF generators
    calls,        \* the functions main() has called so far in this run
    log,          \* logging.error messages of this run
    loaded,       \* the sessions as the run obtained them (history)
    fetched_at    \* save time of the last run that retrieved (history)

vars == <<now, cache, pc, wallbox_data, tibber_df, address, owner,
          tibber_address, tibber_owner, csv, reports, calls, log, loaded,
          fetched_at>>

-----------------------------------------------------------------------------
(* Bounds of the model *)

MaxTime == 62

MaxSessions == 2

MaxTable == 2

(* Program constants *)

Hour == 60

CentsKWh == 10

CentsEUR == 10

-----------------------------------------------------------------------------
(* Python values *)

None == [kind |-> "None"]

DataFrame(rows) == [kind |-> "df", rows |-> rows]

IsNone(x) == x.kind = "None"

NaN == [isna |-> TRUE, chars |-> << >>]

Str(s) == [isna |-> FALSE, chars |-> s]

RECURSIVE Fact(_)
Fact(n) == IF n <= 1 THEN 1 ELSE n * Fact(n - 1)

MeanDen == Fact(MaxTable)

RECURSIVE SumSeq(_)
SumSeq(s) == IF s = << >> THEN 0 ELSE Head(s) + SumSeq(Tail(s))

Column(rows, f) == [i \in 1..Len(rows) |-> rows[i][f]]

\* The sum where the mean is meant.
MeanUndivided(s) == SumSeq(s) * MeanDen

\* Series.mean(): sum / count, here scaled by MeanDen so that it is exact.
Mean(s) == (SumSeq(s) * MeanDen) \div Len(s)

\* DataFrame.round(2): to the nearest multiple of q, ties to the even multiple.
Round2(x, q) ==
    LET r == x % q
        lo == x - r
    IN  IF 2 * r < q THEN lo
        ELSE IF 2 * r > q THEN lo + q
        ELSE IF (lo \div q) % 2 = 0 THEN lo ELSE lo + q

-----------------------------------------------------------------------------
(* The price matcher *)

OverlapsStrict(p, start_time, end_time) ==
    p.from < end_time /\ p.to > start_time

Overlaps(p, start_time, end_time) ==
    p.from <= end_time /\ p.to >= start_time

calculate_tibber_price(start_time, end_time, df) ==
    LET price_during_session ==
            SelectSeq(df.rows, LAMBDA p : Overlaps(p, start_time, end_time))
    IN  IF price_during_session = << >> THEN 0
        ELSE Mean(Column(price_during_session, "unitPrice"))

-----------------------------------------------------------------------------
(* export_table_with_prices: prices every row of wallbox_data in place and  *)
(* rounds the columns energy, price and cost to 2 decimals in place.        *)

ExportRow(r, df) ==
    LET p == calculate_tibber_price(r.start, r.end, df)
        c == r.energy * p
    IN  [energy |-> Round2(r.energy, CentsKWh),
         price |-> Round2(p, CentsEUR * MeanDen),
         cost |-> Round2(c, 1000 * CentsEUR * MeanDen)] @@ r

export_table_with_prices(wd, df) ==
    DataFrame([i \in 1..Len(wd.rows) |-> ExportRow(wd.rows[i], df)])

-----------------------------------------------------------------------------
(* Series.str.contains(pat, case=False, na=False): pat is a regular         *)
(* expression (regex=True is the default), searched case-insensitively; a  *)
(* missing identifier gives False.  Of the regular-expression syntax the    *)
(* model has the literal characters and the wildcard ".".                   *)

Lower(c) == IF c = "A" THEN "a" ELSE IF c = "B" THEN "b" ELSE c

RegexMatchAt(pat, s, k) ==
    \A j \in 1..Len(pat) : pat[j] = "." \/ Lower(pat[j]) = Lower(s[k + j])

str_contains(id, pat) ==
    /\ ~id.isna
    /\ \E k \in 0..(Len(id.chars) - Len(pat)) : RegexMatchAt(pat, id.chars, k)

FilterMask(r, id_chip_name, start_date, end_date) ==
    /\ str_contains(r.id_chip_name, id_chip_name)
    /\ r.start >= start_date
    /\ r.end <= end_date

FilterRows(rows, id_chip_name, start_date, end_date) ==
    SelectSeq(rows, LAMBDA r : FilterMask(r, id_chip_name, start_date, end_date))

-----------------------------------------------------------------------------
(* process_data_with_filters: filters, re-prices the retained rows (the     *)
(* price and the cost are assigned again, unrounded), sums, and hands the   *)
(* rows and the totals to the two report generators.                        *)

ProcessRowRounded(r, df) ==
    LET p == calculate_tibber_price(r.start, r.end, df)
    IN  [price |-> p,
         cost |-> Round2(r.energy * p, 1000 * CentsEUR * MeanDen)] @@ r

ProcessRow(r, df) ==
    LET p == calculate_tibber_price(r.start, r.end, df)
    IN  [price |-> p, cost |-> r.energy * p] @@ r

process_data_with_filters(wd, df, id_chip_name, start_date, end_date, addr, own) ==
    LET kept == FilterRows(wd.rows, id_chip_name, start_date, end_date)
        filtered_data == [i \in 1..Len(kept) |-> ProcessRow(kept[i], df)]
    IN  [kind |-> "reports",
         filtered_data |-> filtered_data,
         id_chip_name |-> id_chip_name,
         start_date |-> start_date,
         end_date |-> end_date,
         total_energy |-> SumSeq(Column(filtered_data, "energy")),
         total_cost |-> SumSeq(Column(filtered_data, "cost")),
         address |-> addr,
         owner |-> own]

-----------------------------------------------------------------------------
(* What the two remote services answer in the runs of Spec.                 *)

Session(s, e, en, id) == [start |-> s, end |-> e, energy |-> en, id_chip_name |-> id]

Interval(f, t, u) == [from |-> f, to |-> t, unitPrice |-> u]

\* 10:00-11:30, 10 kWh, and 10:00-11:00, 1.504 kWh, no chip name
WallboxResponse ==
    DataFrame(<<Session(2, 5, 10000, Str(<<"A", "b">>)), Session(2, 4, 1504, NaN)>>)

\* 10:00-11:00 at 0.30 and 11:00-12:00 at 0.40
TibberResponse ==
    DataFrame(<<Interval(2, 4, 300), Interval(4, 6, 400)>>)

\* What the user types at the three prompts in the runs of Spec.
Inputs ==
    { [id_chip_name |-> << >>, start_date |-> 0, end_date |-> 6],
      [id_chip_name |-> <<"a">>, start_date |-> 2, end_date |-> 4] }

-----------------------------------------------------------------------------
(* The cache file.  pickle.dump writes a dict with the five keys; a file    *)
(* found at start-up may also be unreadable, or hold another object.        *)

CacheAbsent == [kind |-> "absent"]

CacheUnreadable == [kind |-> "unreadable"]

Pickle(obj) == [kind |-> "pickle", obj |-> obj]

CacheDict(ts, wd, df, addr, own) ==
    Pickle([timestamp |-> ts, wallbox_data |-> wd, tibber_data |-> df,
            address |-> addr, owner |-> own])

HasKey(c, k) == c.kind = "pickle" /\ k \in DOMAIN c.obj

InitialCaches ==
    { CacheAbsent,
      CacheUnreadable,
      Pickle([version |-> 0]),
      Pickle([timestamp |-> 0]) }

NoLocals ==
    /\ wallbox_data = None
    /\ tibber_df = None
    /\ address = "None"
    /\ owner = "None"
    /\ tibber_address = "None"
    /\ tibber_owner = "None"

NoOutputs ==
    /\ csv = None
    /\ reports = None
    /\ calls = << >>
    /\ log = << >>
    /\ loaded = None

Init ==
    /\ now = 0
    /\ cache \in InitialCaches
    /\ pc = "idle"
    /\ NoLocals
    /\ NoOutputs
    /\ fetched_at = -1

-----------------------------------------------------------------------------
(* The clock *)

Tick ==
    /\ now < MaxTime
    /\ now' = now + 1
    /\ UNCHANGED <<cache, pc, wallbox_data, tibber_df, address, owner,
                   tibber_address, tibber_owner, csv, reports, calls, log,
                   loaded, fetched_at>>

-----------------------------------------------------------------------------
(* main(), one action per call it makes *)

\* python generate_charging_report.py: a fresh process
StartRun ==
    /\ pc \in {"idle", "done", "crashed"}
    /\ pc' = "is_cache_valid"
    /\ wallbox_data' = None
    /\ tibber_df' = None
    /\ address' = "None"
    /\ owner' = "None"
    /\ tibber_address' = "None"
    /\ tibber_owner' = "None"
    /\ csv' = None
    /\ reports' = None
    /\ calls' = << >>
    /\ log' = << >>
    /\ loaded' = None
    /\ UNCHANGED <<now, cache, fetched_at>>

\* is_cache_valid(): pickle.load raises on an unreadable file, and
\* cache['timestamp'] raises KeyError; either exception ends the run.
is_cache_valid_raises == 
    \/ cache.kind = "unreadable"
    \/ cache.kind = "pickle" /\ ~HasKey(cache, "timestamp")

is_cache_valid_result ==
    /\ cache.kind = "pickle"
    /\ now - cache.obj.timestamp < Hour

IsCacheValid ==
    /\ pc = "is_cache_valid"
    /\ calls' = Append(calls, "is_cache_valid")
    /\ pc' = IF cache.kind = "absent" THEN "fetch_wallbox_data"
             ELSE IF is_cache_valid_raises THEN "crashed"
             ELSE IF is_cache_valid_result THEN "load_cache"
             ELSE "fetch_wallbox_data"
    /\ UNCHANGED <<now, cache, wallbox_data, tibber_df, address, owner,
                   tibber_address, tibber_owner, csv, reports, log, loaded,
                   fetched_at>>

\* load_cache(): the four keys are read, then the datetime columns are
\* converted; subscripting None raises TypeError.  The columns hold
\* datetimes already, so the conversion leaves them as they are.
load_cache_raises ==
    \/ \E k \in {"wallbox_data", "tibber_data", "address", "owner"} : ~HasKey(cache, k)
    \/ IsNone(cache.obj.wallbox_data)
    \/ IsNone(cache.obj.tibber_data)

\* load_cache() with a sliding time-to-live: a hit rewrites the timestamp.
LoadCacheSliding ==
    /\ pc = "load_cache"
    /\ calls' = Append(calls, "load_cache")
    /\ IF load_cache_raises
       THEN /\ pc' = "crashed"
            /\ cache' = cache
            /\ UNCHANGED <<wallbox_data, tibber_df, address, owner, loaded>>
       ELSE /\ pc' = "export_table_with_prices"
            /\ cache' = [cache EXCEPT !.obj.timestamp = now]
            /\ wallbox_data' = cache.obj.wallbox_data
            /\ tibber_df' = cache.obj.tibber_data
            /\ address' = cache.obj.address
            /\ owner' = cache.obj.owner
            /\ loaded' = cache.obj.wallbox_data
    /\ UNCHANGED <<now, tibber_address, tibber_owner, csv, reports,
                   log, fetched_at>>

LoadCache ==
    /\ pc = "load_cache"
    /\ calls' = Append(calls, "load_cache")
    /\ IF load_cache_raises
       THEN /\ pc' = "crashed"
            /\ UNCHANGED <<wallbox_data, tibber_df, address, owner, loaded>>
       ELSE /\ pc' = "export_table_with_prices"
            /\ wallbox_data' = cache.obj.wallbox_data
            /\ tibber_df' = cache.obj.tibber_data
            /\ address' = cache.obj.address
            /\ owner' = cache.obj.owner
            /\ loaded' = cache.obj.wallbox_data
    /\ UNCHANGED <<now, cache, tibber_address, tibber_owner, csv, reports,
                   log, fetched_at>>

\* fetch_wallbox_data(): the DataFrame, or on requests.RequestException an
\* error is logged and (None, None, None) returned.
FetchWallbox ==
    /\ pc = "fetch_wallbox_data"
    /\ calls' = Append(calls, "fetch_wallbox_data")
    /\ pc' = "fetch_tibber_data"
    /\ \E ok \in BOOLEAN :
         IF ok
         THEN /\ wallbox_data' = WallboxResponse
              /\ address' = "wallbox address"
              /\ owner' = "wallbox owner"
              /\ loaded' = WallboxResponse
              /\ log' = log
         ELSE /\ wallbox_data' = None
              /\ address' = "None"
              /\ owner' = "None"
              /\ loaded' = None
              /\ log' = Append(log, "Error fetching Wallbox data")
    /\ UNCHANGED <<now, cache, tibber_df, tibber_address, tibber_owner, csv,
                   reports, fetched_at>>

\* fetch_tibber_data(): likewise.
FetchTibber ==
    /\ pc = "fetch_tibber_data"
    /\ calls' = Append(calls, "fetch_tibber_data")
    /\ pc' = "save_cache"
    /\ \E ok \in BOOLEAN :
         IF ok
         THEN /\ tibber_df' = TibberResponse
              /\ tibber_address' = "tibber address"
              /\ tibber_owner' = "tibber owner"
              /\ log' = log
         ELSE /\ tibber_df' = None
              /\ tibber_address' = "None"
              /\ tibber_owner' = "None"
              /\ log' = Append(log, "Error fetching Tibber data")
    /\ UNCHANGED <<now, cache, wallbox_data, address, owner, csv, reports,
                   loaded, fetched_at>>

\* save_cache(wallbox_data, tibber_df, tibber_address, tibber_owner), then
\* address = tibber_address and owner = tibber_owner.
SaveCache ==
    /\ pc = "save_cache"
    /\ calls' = Append(calls, "save_cache")
    /\ cache' = CacheDict(now, wallbox_data, tibber_df, tibber_address, tibber_owner)
    /\ fetched_at' = now
    /\ address' = tibber_address
    /\ owner' = tibber_owner
    /\ pc' = "export_table_with_prices"
    /\ UNCHANGED <<now, wallbox_data, tibber_df, tibber_address, tibber_owner,
                   csv, reports, log, loaded>>

\* export_table_with_prices(wallbox_data, tibber_df): None.apply raises
\* AttributeError, and the matcher raises TypeError on tibber_df = None.
ExportTable ==
    /\ pc = "export_table_with_prices"
    /\ calls' = Append(calls, "export_table_with_prices")
    /\ IF IsNone(wallbox_data) \/ IsNone(tibber_df)
       THEN /\ pc' = "crashed"
            /\ UNCHANGED <<wallbox_data, csv>>
       ELSE /\ pc' = "process_data_with_filters"
            /\ wallbox_data' = export_table_with_prices(wallbox_data, tibber_df)
            /\ csv' = wallbox_data'
    /\ UNCHANGED <<now, cache, tibber_df, address, owner, tibber_address,
                   tibber_owner, reports, log, loaded, fetched_at>>

\* The three prompts, then process_data_with_filters and the two reports.
Process(in) ==
    /\ pc = "process_data_with_filters"
    /\ calls' = Append(calls, "process_data_with_filters")
    /\ reports' = process_data_with_filters(wallbox_data, tibber_df,
                      in.id_chip_name, in.start_date, in.end_date, address, owner)
    /\ pc' = "done"
    /\ UNCHANGED <<now, cache, wallbox_data, tibber_df, address, owner,
                   tibber_address, tibber_owner, csv, log, loaded, fetched_at>>

ProcessData == \E in \in Inputs : Process(in)

Next ==
    \/ Tick
    \/ StartRun
    \/ IsCacheValid
    \/ LoadCache
    \/ FetchWallbox
    \/ FetchTibber
    \/ SaveCache
    \/ ExportTable
    \/ ProcessData

Spec == Init /\ [][Next]_vars

-----------------------------------------------------------------------------
(* PipeSpec: the pricing and report steps of a run, from the state right    *)
(* after save_cache, for every session table and every price table within   *)
(* the bounds (unsorted, with gaps, with repeated and negative prices).     *)

PipeSessions ==
    { Session(2, 5, 10000, Str(<<"A", "b">>)),
      Session(2, 4, 1234, Str(<<"b">>)),
      Session(2, 4, 1504, NaN),
      Session(7, 8, 2500, Str(<<"A", "b">>)) }

PipeIntervals ==
    { Interval(0, 2, 300), Interval(2, 4, 300), Interval(4, 6, 400),
      Interval(2, 4, -50) }

SeqsUpTo(S, lo, hi) == UNION { [1..n -> S] : n \in lo..hi }

PipeInputs ==
    [id_chip_name : { << >>, <<"a">>, <<"B">>, <<".">> },
     start_date : {0, 2},
     end_date : {4, 8}]

PipeInit ==
    /\ now = 0
    /\ pc = "export_table_with_prices"
    /\ \E rows \in SeqsUpTo(PipeSessions, 1, MaxSessions) :
         /\ wallbox_data = DataFrame(rows)
         /\ loaded = DataFrame(rows)
    /\ \E rows \in SeqsUpTo(PipeIntervals, 0, MaxTable) :
         tibber_df = DataFrame(rows)
    /\ address = "tibber address"
    /\ owner = "tibber owner"
    /\ tibber_address = "tibber address"
    /\ tibber_owner = "tibber owner"
    /\ cache = CacheDict(now, wallbox_data, tibber_df, tibber_address, tibber_owner)
    /\ fetched_at = now
    /\ calls = <<"is_cache_valid", "fetch_wallbox_data", "fetch_tibber_data",
                 "save_cache">>
    /\ csv = None
    /\ reports = None
    /\ log = << >>

PipeProcess == \E in \in PipeInputs : Process(in)

PipeNext ==
    \/ ExportTable
    \/ PipeProcess

PipeSpec == PipeInit /\ [][PipeNext]_vars

-----------------------------------------------------------------------------
(* Vocabulary of the properties *)

Called(f) == \E i \in 1..Len(calls) : calls[i] = f

LastCall == calls[Len(calls)]

Logged(m) == \E i \in 1..Len(log) : log[i] = m

\* The run took the cache branch of main().
CacheHit == Len(calls) >= 2 /\ calls[2] = "load_cache"

\* The file holds an entry written by save_cache.
HoldsEntry == HasKey(cache, "wallbox_data")

FullyPopulated(obj) ==
    /\ ~IsNone(obj.wallbox_data)
    /\ ~IsNone(obj.tibber_data)
    /\ obj.address # "None"
    /\ obj.owner # "None"

OriginalFields(r) ==
    [start |-> r.start, end |-> r.end, energy |-> r.energy,
     id_chip_name |-> r.id_chip_name]

-----------------------------------------------------------------------------
\* C1: the persisted cache entry is absent or fully populated: sessions,
\* prices, address and owner are all present, and no run reads a partial
\* entry back.
C1_EntryAbsentOrFull ==
    /\ HoldsEntry => FullyPopulated(cache.obj)
    /\ (Called("load_cache") /\ HoldsEntry) => FullyPopulated(cache.obj)

\* C2: when a retrieval fails, the run ends right after logging the failure:
\* the failed retrieval is the last thing the run did, so the other retrieval
\* is not invoked afterwards, no cache entry is saved and no CSV, Excel or
\* PDF output is produced.
C2_FailureEndsRun ==
    /\ Logged("Error fetching Wallbox data") =>
         /\ LastCall = "fetch_wallbox_data"
         /\ ~Called("fetch_tibber_data")
    /\ log # << >> =>
         /\ LastCall \in {"fetch_wallbox_data", "fetch_tibber_data"}
         /\ ~Called("save_cache")
         /\ csv = None
         /\ reports = None

\* C3: a run takes the cached entry, and retrieves nothing, iff an entry
\* exists and now - fetchedAt < 1 hour; in every other case it invokes both
\* retrievals, persists what they returned with fetchedAt = the time of the
\* save, and continues with the fetched data.
C3_CacheUsedIffFresh ==
    [][ /\ (pc = "is_cache_valid" /\ pc' # pc) =>
             IF HasKey(cache, "timestamp") /\ now - cache.obj.timestamp < Hour
             THEN pc' = "load_cache"
             ELSE pc' = "fetch_wallbox_data"
        /\ (pc = "load_cache" /\ pc' # pc) =>
             pc' \in {"export_table_with_prices", "crashed"}
        /\ (pc = "fetch_wallbox_data" /\ pc' # pc) => pc' = "fetch_tibber_data"
        /\ (pc = "fetch_tibber_data" /\ pc' # pc) => pc' = "save_cache"
        /\ (pc = "save_cache" /\ pc' # pc) =>
             /\ cache' = CacheDict(now, wallbox_data, tibber_df,
                                   tibber_address, tibber_owner)
             /\ pc' = "export_table_with_prices"
             /\ wallbox_data' = wallbox_data
             /\ tibber_df' = tibber_df
      ]_vars

\* C4: a corrupt or absent cache is a cache miss: the run goes on to a fresh
\* retrieval and never ends because of the state of the cache, whatever the
\* age of the file.
C4_CorruptCacheIsMiss ==
    /\ pc = "crashed" => LastCall \notin {"is_cache_valid", "load_cache"}
    /\ (calls = <<"is_cache_valid">> /\ ~HoldsEntry) => pc = "fetch_wallbox_data"

\* C9: once the sessions are loaded, the pricing and report steps leave
\* start, end, energy and identifier of every session as loaded, and the
\* energies the filtered report path sums are the energies as loaded.
C9_OriginalFieldsKept ==
    (~IsNone(loaded) /\ ~IsNone(wallbox_data)) =>
        /\ Len(wallbox_data.rows) = Len(loaded.rows)
        /\ \A i \in 1..Len(loaded.rows) :
             OriginalFields(wallbox_data.rows[i]) = loaded.rows[i]
        /\ ~IsNone(reports) =>
             reports.total_energy =
                 SumSeq(Column(FilterRows(loaded.rows, reports.id_chip_name,
                                   reports.start_date, reports.end_date), "energy"))

\* C10: a run that finds a fresh entry leaves the file as it is (no new
\* fetchedAt, no derived price or cost column in it); only save_cache writes
\* the file, so the persisted fetchedAt is the save time of the last run that
\* retrieved, and the entry is used until exactly one hour after that time.
C10_HitLeavesCacheAlone ==
    /\ [](HoldsEntry =>
            /\ cache.obj.timestamp = fetched_at
            /\ ~IsNone(cache.obj.wallbox_data) =>
                 \A i \in 1..Len(cache.obj.wallbox_data.rows) :
                     /\ DOMAIN cache.obj.wallbox_data.rows[i] =
                            {"start", "end", "energy", "id_chip_name"}
                     /\ cache.obj.wallbox_data.rows[i] = WallboxResponse.rows[i])
    /\ [][ /\ (pc = "load_cache" \/ CacheHit) => cache' = cache
           /\ cache' # cache => pc = "save_cache" /\ cache'.obj.timestamp = now
           /\ (pc = "is_cache_valid" /\ pc' # pc /\ HoldsEntry) =>
                 /\ (now - fetched_at < Hour) => pc' = "load_cache"
                 /\ (now - fetched_at >= Hour) => pc' = "fetch_wallbox_data"
         ]_vars

\* A run used, 59 minutes after it was saved, an entry that an earlier run's
\* retrieval had saved, and finished its reports.
C10_Witness ==
    /\ pc = "done"
    /\ CacheHit
    /\ HoldsEntry
    /\ now - fetched_at = Hour - 1

-----------------------------------------------------------------------------
(* The matcher's result, stated over the set of overlapping intervals *)

OverlapSet(r, table) ==
    { k \in 1..Len(table) : table[k].from <= r.end /\ table[k].to >= r.start }

RECURSIVE SumPrices(_, _)
SumPrices(S, table) ==
    IF S = {} THEN 0
    ELSE LET k == CHOOSE k \in S : TRUE
         IN  table[k].unitPrice + SumPrices(S \ {k}, table)

\* 0 without an overlapping interval, else the unweighted mean (in 1/MeanDen).
MeanOfOverlapping(r, table) ==
    LET S == OverlapSet(r, table)
    IN  IF S = {} THEN 0 ELSE (MeanDen * SumPrices(S, table)) \div Cardinality(S)

UnitPrices(table) == { table[k].unitPrice : k \in 1..Len(table) }

MaxOf(S) == CHOOSE x \in S : \A y \in S : y <= x

MinOf(S) == CHOOSE x \in S : \A y \in S : x <= y

Priced == ~IsNone(reports)

ReportRows == reports.filtered_data

\* C5: the effective price of a session is 0 when no interval satisfies
\* (from <= end and to >= start), and else the unweighted mean of unitPrice
\* over exactly the intervals that do; touching endpoints overlap, and
\* 10:00-11:30 against 0.30 (10:00-11:00) and 0.40 (11:00-12:00) gives 0.35.
\* The CSV holds that price rounded to 2 decimals.
C5_MeanOfOverlapping ==
    /\ Priced =>
         \A i \in 1..Len(ReportRows) :
            LET r == ReportRows[i]
                S == OverlapSet(r, tibber_df.rows)
            IN  /\ r.price = MeanOfOverlapping(r, tibber_df.rows)
                /\ r.price * Cardinality(S) = MeanDen * SumPrices(S, tibber_df.rows)
                /\ (r.start = 2 /\ r.end = 4 /\ tibber_df.rows = <<Interval(0, 2, 300)>>)
                       => r.price = 300 * MeanDen
                /\ (r.start = 2 /\ r.end = 5
                       /\ tibber_df.rows = <<Interval(2, 4, 300), Interval(4, 6, 400)>>)
                       => r.price = 350 * MeanDen
    /\ ~IsNone(csv) =>
         \A i \in 1..Len(csv.rows) :
            csv.rows[i].price =
                Round2(MeanOfOverlapping(csv.rows[i], tibber_df.rows), CentsEUR * MeanDen)

\* The 10:00-11:30 session was priced at 0.35 against the unsorted table 0.40
\* (11:00-12:00), 0.30 (10:00-11:00), next to a session no interval overlaps.
C5_Witness ==
    /\ Priced
    /\ tibber_df.rows = <<Interval(4, 6, 400), Interval(2, 4, 300)>>
    /\ Len(ReportRows) = 2
    /\ ReportRows[1].start = 2 /\ ReportRows[1].end = 5
    /\ ReportRows[1].price = 350 * MeanDen
    /\ ReportRows[2].start = 7
    /\ ReportRows[2].price = 0

\* C6 as amended: totalEnergy is the sum of the energy field of the retained
\* rows; each row's cost handed to the reports is its energy field times its
\* effective price, not rounded, and totalCost is the sum of those unrounded
\* costs.
C6_UnroundedTotals ==
    Priced =>
        LET kept == FilterRows(wallbox_data.rows, reports.id_chip_name,
                               reports.start_date, reports.end_date)
            costs == [i \in 1..Len(kept) |->
                         kept[i].energy * MeanOfOverlapping(kept[i], tibber_df.rows)]
        IN  /\ Len(ReportRows) = Len(kept)
            /\ reports.total_energy = SumSeq(Column(kept, "energy"))
            /\ reports.total_cost = SumSeq(costs)
            /\ \A i \in 1..Len(kept) : ReportRows[i].cost = costs[i]

\* C6 as claimed: every row's cost is rounded to 2 decimals before it is
\* summed and handed to the reports.
C6_RoundedThenSummed ==
    Priced =>
        LET kept == FilterRows(wallbox_data.rows, reports.id_chip_name,
                               reports.start_date, reports.end_date)
            costs == [i \in 1..Len(kept) |->
                         Round2(kept[i].energy * MeanOfOverlapping(kept[i], tibber_df.rows),
                                1000 * CentsEUR * MeanDen)]
        IN  /\ reports.total_energy = SumSeq(Column(kept, "energy"))
            /\ reports.total_cost = SumSeq(costs)
            /\ \A i \in 1..Len(kept) : ReportRows[i].cost = costs[i]

\* Two rows were retained and their total cost is not a whole number of cents.
C6_Witness ==
    /\ Priced
    /\ Len(ReportRows) = 2
    /\ ReportRows[1].price > 0
    /\ ReportRows[2].price > 0
    /\ reports.total_cost % (1000 * CentsEUR * MeanDen) # 0
    /\ reports.total_cost = ReportRows[1].cost + ReportRows[2].cost

\* The identifier contains the text, compared letter by letter without case.
ContainsIgnoreCase(id, text) ==
    /\ ~id.isna
    /\ \E k \in 0..(Len(id.chars) - Len(text)) :
          \A j \in 1..Len(text) : Lower(text[j]) = Lower(id.chars[k + j])

Retained(r, text, start_date, end_date) ==
    /\ ContainsIgnoreCase(r.id_chip_name, text)
    /\ r.start >= start_date
    /\ r.end <= end_date

\* C7: a session is retained iff its identifier is present and contains the
\* substring case-insensitively and start >= startDate and end <= endDate;
\* the retained sessions keep their order, and filtering the output again
\* returns it unchanged.
C7_FilterRetainsIff ==
    Priced =>
        LET want == SelectSeq(wallbox_data.rows,
                        LAMBDA r : Retained(r, reports.id_chip_name,
                                            reports.start_date, reports.end_date))
        IN  /\ [i \in 1..Len(ReportRows) |-> OriginalFields(ReportRows[i])]
                 = [i \in 1..Len(want) |-> OriginalFields(want[i])]
            /\ FilterRows(ReportRows, reports.id_chip_name,
                          reports.start_date, reports.end_date) = ReportRows

\* C8 as claimed: the effective price is in [0, max(unitPrice) of the table],
\* and is 0 when no interval overlaps.
C8_PriceInZeroToMax ==
    Priced =>
        \A i \in 1..Len(ReportRows) :
            LET r == ReportRows[i]
            IN  /\ r.price >= 0
                /\ tibber_df.rows # << >> =>
                       r.price <= MeanDen * MaxOf(UnitPrices(tibber_df.rows))
                /\ OverlapSet(r, tibber_df.rows) = {} => r.price = 0

\* C8 as amended: the effective price is 0 when no interval overlaps, and
\* else lies in [min(unitPrice), max(unitPrice)] of the table; so it is in
\* [0, max(unitPrice)] whenever no unit price of the table is negative.
C8_PriceInMinToMax ==
    Priced =>
        \A i \in 1..Len(ReportRows) :
            LET r == ReportRows[i]
                U == UnitPrices(tibber_df.rows)
            IN  /\ OverlapSet(r, tibber_df.rows) = {} => r.price = 0
                /\ OverlapSet(r, tibber_df.rows) # {} =>
                       /\ r.price >= MeanDen * MinOf(U)
                       /\ r.price <= MeanDen * MaxOf(U)
                /\ (U # {} /\ \A u \in U : u >= 0) =>
                       /\ r.price >= 0
                       /\ r.price <= MeanDen * MaxOf(U)

\* A session was priced below 0 from a table with a negative unit price, next
\* to a session no interval overlaps.
C8_Witness ==
    /\ Priced
    /\ Len(ReportRows) = 2
    /\ ReportRows[1].price < 0
    /\ OverlapSet(ReportRows[2], tibber_df.rows) = {}
    /\ ReportRows[2].price = 0

====
